---- MODULE Spec2Model ----
(***************************************************************************)
(* Model of the two cores of the repository:                               *)
(*   Core A, src/1/corobus.cpp : the coroutine bus (channels, wait queues, *)
(*           blocking / non-blocking / batch / broadcast transfers);       *)
(*   Core B, src/2/solution.cpp: the shell executor (exit-code parsing,    *)
(*           plan building, && / || sequencing, builtins, background).     *)
(* SpecBus runs Core A, SpecShell runs Core B; the two share no state.     *)
(***************************************************************************)
EXTENDS Integers, Sequences, FiniteSets, TLC

VARIABLES
    \* ---- Core A: struct coro_bus and the coroutines using it
    channels,          \* bus->channels[0 .. channel_count-1], NullChan = NULL slot
    channel_count,     \* bus->channel_count
    channel_capacity,  \* bus->channel_capacity (allocated slots)
    global_error,      \* static global_error
    coros,             \* per coroutine: where it is inside a bus call
    fifo,              \* per slot: values put in and not yet taken out, oldest first
    fifoOK,            \* no receive so far delivered anything but the oldest values
    \* ---- Core B: run_shell_loop and what it calls
    shpc,              \* where the shell is: "read" (parser_pop_next), "seq" (the
                       \* loop of run_command_sequence), "done" (back from
                       \* process_command_line), "exited", "eof", "hung"
    last_status,       \* run_shell_loop::last_status
    bg_processes,      \* run_shell_loop::bg_processes
    bg_alive,          \* background children that have not exited yet
    line,              \* the command_line being processed
    parsed,            \* run_command_sequence::parsed
    seq_i,             \* run_command_sequence: loop index i
    current_status,    \* run_command_sequence::current_status
    should_exit,       \* run_shell_loop::should_exit
    trace,             \* per pipeline the loop visited on this line: was it run,
                       \* current_status before and after
    open_fds,          \* pipe descriptors execute_pipeline created and the shell
                       \* still holds open
    unreaped           \* children execute_pipeline forked and returned without
                       \* waiting for

busVars == <<channels, channel_count, channel_capacity, global_error, coros,
             fifo, fifoOK>>
shellVars == <<shpc, last_status, bg_processes, bg_alive, line, parsed,
               seq_i, current_status, should_exit, trace, open_fds, unreaped>>
vars == <<channels, channel_count, channel_capacity, global_error, coros,
          fifo, fifoOK,
          shpc, last_status, bg_processes, bg_alive, line, parsed,
          seq_i, current_status, should_exit, trace, open_fds, unreaped>>

Min(a, b) == IF a < b THEN a ELSE b

(***************************************************************************)
(* Bounds of the model.                                                    *)
(***************************************************************************)
NCoro == 2            \* coroutines that can be inside a blocking call at once
NBatchCoro == 1       \* how many of them use the blocking batch and broadcast calls
MaxChan == 2          \* channel slots ever allocated in the table
MaxCap == 2           \* largest size_limit passed to channel_open
MaxRing == 2          \* ring cells allocated at once, over all open channels
MaxVal == 2           \* message values are 1..MaxVal
MaxBatch == 2         \* largest count / capacity of a batch call

\* Coroutines 1..NCoro are followed through calls that may suspend them.  A call
\* that never suspends (try_*, channel_open) is made by any coroutine that is
\* running, and needs no name: AnyCoro stands for its caller.
Coros == 1..NCoro
BatchCoros == 1..Min(NBatchCoro, NCoro)
AnyCoro == 0
Vals == 1..MaxVal
Caps == 1..MaxCap
ChanIds == (0 - 1)..(MaxChan - 1)   \* ids a caller may pass; -1 is never valid

\* data[0 .. count-1] of a send_v call, count = Len: 1, 2, .. cycling through Vals.
Bufs == {[i \in 1..n |-> ((i - 1) % MaxVal) + 1] : n \in 0..MaxBatch}

(***************************************************************************)
(* Core A data.                                                            *)
(***************************************************************************)
ERR_NONE == "NONE"
ERR_NO_CHANNEL == "NO_CHANNEL"
ERR_WOULD_BLOCK == "WOULD_BLOCK"

\* A NULL slot of bus->channels.
NullChan == [live |-> FALSE, size_limit |-> 0, data |-> <<>>, data_count |-> 0,
             data_head |-> 0, send_queue |-> <<>>, recv_queue |-> <<>>]

\* A channel as channel_open builds it; data is a ring indexed 0..size_limit-1,
\* 0 standing for a cell malloc left unwritten.
NewChan(size_limit) ==
    [live |-> TRUE, size_limit |-> size_limit,
     data |-> [i \in 0..(size_limit - 1) |-> 0],
     data_count |-> 0, data_head |-> 0,
     send_queue |-> <<>>, recv_queue |-> <<>>]

\* A coroutine outside any bus call.
IdleCoro == [st |-> "idle", op |-> "none", channel |-> 0, data |-> 0, buf |-> <<>>,
             capacity |-> 0, already_removed |-> FALSE, byclose |-> FALSE]

\* The messages of a channel, oldest first: ring cells (head + i) mod size_limit.
Contents(ch) ==
    [i \in 1..ch.data_count |-> ch.data[(ch.data_head + i - 1) % ch.size_limit]]

(***************************************************************************)
(* Wakeup queue (corobus.cpp 25-49).  A queue is the sequence of the       *)
(* coroutines whose wakeup_entry is linked into it, oldest first.          *)
(***************************************************************************)

\* wakeup_queue_wakeup_first on queue q ("send_queue" / "recv_queue") of channel
\* object ch: unlink the first entry, mark it already_removed, coro_wakeup its
\* coroutine.  Yields the channel object and the coroutines afterwards.
wakeup_queue_wakeup_first(ch, cs, q) ==
    IF ch[q] = <<>>
    THEN [ch |-> ch, coros |-> cs]
    ELSE [ch |-> [ch EXCEPT ![q] = Tail(ch[q])],
          coros |-> [cs EXCEPT ![Head(ch[q])].already_removed = TRUE,
                               ![Head(ch[q])].st = "woken"]]

\* A wake-up pass that wakes one waiter however many messages moved.
WakeupLoop_Once(ch, cs, q, n) ==
    IF n = 0 THEN [ch |-> ch, coros |-> cs] ELSE wakeup_queue_wakeup_first(ch, cs, q)

\* n calls of wakeup_queue_wakeup_first in a row (the batch loops at 387, 445).
RECURSIVE WakeupLoop(_, _, _, _)
WakeupLoop(ch, cs, q, n) ==
    IF n = 0 THEN [ch |-> ch, coros |-> cs]
    ELSE LET w == wakeup_queue_wakeup_first(ch, cs, q)
         IN WakeupLoop(w.ch, w.coros, q, n - 1)

\* while (!rlist_empty(queue)) wakeup_queue_wakeup_first(queue)  (176-181)
DrainQueue(ch, cs, q) == WakeupLoop(ch, cs, q, Len(ch[q]))

\* A suspend that links the fresh entry at the head of the queue.
SuspendOn_AtHead(ch, q, c) == [ch EXCEPT ![q] = <<c>> \o ch[q]]

\* wakeup_queue_suspend_this, up to coro_suspend(): link a fresh entry at the tail.
SuspendOn(ch, q, c) == [ch EXCEPT ![q] = Append(ch[q], c)]

\* wakeup_queue_suspend_this, after coro_suspend() returned: an entry that nobody
\* unlinked unlinks itself from whatever queue it is in.
UnlinkSelf(chs, c, already_removed) ==
    IF already_removed THEN chs
    ELSE [i \in DOMAIN chs |->
            [chs[i] EXCEPT !.send_queue = SelectSeq(@, LAMBDA d : d # c),
                           !.recv_queue = SelectSeq(@, LAMBDA d : d # c)]]

(***************************************************************************)
(* Non-blocking operations: each yields the result of the call on the      *)
(* current state as [channels, coros, err, rc, out].                       *)
(***************************************************************************)
Failed(chs, cs, err) ==
    [channels |-> chs, coros |-> cs, err |-> err, rc |-> 0 - 1, out |-> <<>>]

\* channel < 0 || channel >= bus->channel_count
OutOfRange(channel) == channel < 0 \/ channel >= channel_count

\* A lookup that checks the range of the id and not the slot.
NoChannel_RangeOnly(chs, channel) == OutOfRange(channel)

\* The lookup every operation starts with: out of range, or a NULL slot.
NoChannel(chs, channel) == OutOfRange(channel) \/ ~chs[channel].live

\* A fullness test that is off by one.
IsFull_Strict(ch) == ch.data_count > ch.size_limit

\* ch->data_count >= ch->size_limit
IsFull(ch) == ch.data_count >= ch.size_limit

\* size_t tail = (ch->data_head + ch->data_count) % ch->size_limit
TailIndex(ch) == (ch.data_head + ch.data_count) % ch.size_limit

\* ch->data[tail] = data; ch->data_count++
PushBack(ch, data) ==
    [ch EXCEPT !.data[TailIndex(ch)] = data, !.data_count = @ + 1]

\* PopFront that forgets to advance the head.
PopFront_HeadStuck(ch) == [ch EXCEPT !.data_count = @ - 1]

\* ch->data_head = (ch->data_head + 1) % ch->size_limit; ch->data_count--
PopFront(ch) ==
    [ch EXCEPT !.data_head = (@ + 1) % ch.size_limit, !.data_count = @ - 1]

try_send(chs, cs, channel, data) ==
    IF NoChannel(chs, channel) THEN Failed(chs, cs, ERR_NO_CHANNEL)
    ELSE IF IsFull(chs[channel]) THEN Failed(chs, cs, ERR_WOULD_BLOCK)
    ELSE LET w == wakeup_queue_wakeup_first(PushBack(chs[channel], data), cs,
                                            "recv_queue")
         IN [channels |-> [chs EXCEPT ![channel] = w.ch], coros |-> w.coros,
             err |-> ERR_NONE, rc |-> 0, out |-> <<>>]

try_recv(chs, cs, channel) ==
    IF NoChannel(chs, channel) THEN Failed(chs, cs, ERR_NO_CHANNEL)
    ELSE IF chs[channel].data_count = 0 THEN Failed(chs, cs, ERR_WOULD_BLOCK)
    ELSE LET ch == chs[channel]
             w == wakeup_queue_wakeup_first(PopFront(ch), cs, "send_queue")
         IN [channels |-> [chs EXCEPT ![channel] = w.ch], coros |-> w.coros,
             err |-> ERR_NONE, rc |-> 0, out |-> <<ch.data[ch.data_head]>>]

\* The first loop of try_broadcast: is any slot non-NULL.
ActiveCount(chs) == Cardinality({i \in DOMAIN chs : chs[i].live})

\* A fullness loop that stops after the first slot.
AnyFull_FirstOnly(chs) == chs[0].live /\ IsFull(chs[0])

\* The second loop of try_broadcast: is any live channel full.
AnyFull(chs) == \E i \in DOMAIN chs : chs[i].live /\ IsFull(chs[i])

\* The third loop of try_broadcast from slot i on: push and wake on every live one.
RECURSIVE BroadcastFrom(_, _, _, _)
BroadcastFrom(chs, cs, i, data) ==
    IF i >= channel_count THEN [channels |-> chs, coros |-> cs]
    ELSE IF ~chs[i].live THEN BroadcastFrom(chs, cs, i + 1, data)
    ELSE LET w == wakeup_queue_wakeup_first(PushBack(chs[i], data), cs, "recv_queue")
         IN BroadcastFrom([chs EXCEPT ![i] = w.ch], w.coros, i + 1, data)

try_broadcast(chs, cs, data) ==
    IF ActiveCount(chs) = 0 THEN Failed(chs, cs, ERR_NO_CHANNEL)
    ELSE IF AnyFull(chs) THEN Failed(chs, cs, ERR_WOULD_BLOCK)
    ELSE LET b == BroadcastFrom(chs, cs, 0, data)
         IN [channels |-> b.channels, coros |-> b.coros,
             err |-> ERR_NONE, rc |-> 0, out |-> <<>>]

\* while (sent < count && ch->data_count < ch->size_limit) of try_send_v:
\* yields the channel object and sent.
RECURSIVE SendVLoop(_, _, _)

\* SendVLoop that copies the whole buffer whatever room is left.
SendVLoop_NoRoomCheck(ch, buf, sent) ==
    IF sent < Len(buf)
    THEN SendVLoop(PushBack(ch, buf[sent + 1]), buf, sent + 1)
    ELSE [ch |-> ch, n |-> sent]

SendVLoop(ch, buf, sent) ==
    IF sent < Len(buf) /\ ch.data_count < ch.size_limit
    THEN SendVLoop(PushBack(ch, buf[sent + 1]), buf, sent + 1)
    ELSE [ch |-> ch, n |-> sent]

try_send_v(chs, cs, channel, buf) ==
    IF NoChannel(chs, channel) THEN Failed(chs, cs, ERR_NO_CHANNEL)
    ELSE IF IsFull(chs[channel]) THEN Failed(chs, cs, ERR_WOULD_BLOCK)
    ELSE LET l == SendVLoop(chs[channel], buf, 0)
             w == WakeupLoop(l.ch, cs, "recv_queue", l.n)
         IN [channels |-> [chs EXCEPT ![channel] = w.ch], coros |-> w.coros,
             err |-> ERR_NONE, rc |-> l.n, out |-> <<>>]

\* while (received < capacity && ch->data_count > 0) of try_recv_v:
\* yields the channel object and the values stored into data[0 .. received-1].
RECURSIVE RecvVLoop(_, _, _)
RecvVLoop(ch, capacity, got) ==
    IF Len(got) < capacity /\ ch.data_count > 0
    THEN RecvVLoop(PopFront(ch), capacity, Append(got, ch.data[ch.data_head]))
    ELSE [ch |-> ch, out |-> got]

try_recv_v(chs, cs, channel, capacity) ==
    IF NoChannel(chs, channel) THEN Failed(chs, cs, ERR_NO_CHANNEL)
    ELSE IF chs[channel].data_count = 0 THEN Failed(chs, cs, ERR_WOULD_BLOCK)
    ELSE LET l == RecvVLoop(chs[channel], capacity, <<>>)
             w == WakeupLoop(l.ch, cs, "send_queue", Len(l.out))
         IN [channels |-> [chs EXCEPT ![channel] = w.ch], coros |-> w.coros,
             err |-> ERR_NONE, rc |-> Len(l.out), out |-> l.out]

(***************************************************************************)
(* Blocking operations.  One pass of the while (true) loop of the call by  *)
(* coroutine c, from the channel lookup to the return or to coro_suspend() *)
(* inside wakeup_queue_suspend_this.  The result adds park: TRUE when the  *)
(* coroutine linked itself into a wait queue and suspended.                *)
(***************************************************************************)
Returned(r, rc) ==
    [channels |-> r.channels, coros |-> r.coros, err |-> r.err, rc |-> rc,
     out |-> r.out, park |-> FALSE]

Parked(r, c, channel, q) ==
    [channels |-> [r.channels EXCEPT ![channel] = SuspendOn(@, q, c)],
     coros |-> r.coros, err |-> r.err, rc |-> 0, out |-> <<>>, park |-> TRUE]

coro_bus_send(chs, cs, c, channel, data) ==
    IF NoChannel(chs, channel) THEN Returned(Failed(chs, cs, ERR_NO_CHANNEL), 0 - 1)
    ELSE LET r == try_send(chs, cs, channel, data)
         IN IF r.rc = 0 THEN Returned(r, 0)
            ELSE IF r.err # ERR_WOULD_BLOCK THEN Returned(r, 0 - 1)
            ELSE Parked(r, c, channel, "send_queue")

coro_bus_recv(chs, cs, c, channel) ==
    IF NoChannel(chs, channel) THEN Returned(Failed(chs, cs, ERR_NO_CHANNEL), 0 - 1)
    ELSE LET r == try_recv(chs, cs, channel)
         IN IF r.rc = 0 THEN Returned(r, 0)
            ELSE IF r.err # ERR_WOULD_BLOCK THEN Returned(r, 0 - 1)
            ELSE Parked(r, c, channel, "recv_queue")

\* The for loop of coro_bus_broadcast: the first live channel that is full.
FirstFull(chs) ==
    CHOOSE i \in DOMAIN chs :
        /\ chs[i].live /\ IsFull(chs[i])
        /\ \A j \in DOMAIN chs : j < i => ~(chs[j].live /\ IsFull(chs[j]))

coro_bus_broadcast(chs, cs, c, data) ==
    LET r == try_broadcast(chs, cs, data)
    IN IF r.rc = 0 THEN Returned(r, 0)
       ELSE IF r.err # ERR_WOULD_BLOCK THEN Returned(r, 0 - 1)
       ELSE Parked(r, c, FirstFull(chs), "send_queue")

coro_bus_send_v(chs, cs, c, channel, buf) ==
    IF NoChannel(chs, channel) THEN Returned(Failed(chs, cs, ERR_NO_CHANNEL), 0 - 1)
    ELSE LET r == try_send_v(chs, cs, channel, buf)
         IN IF r.rc > 0 THEN Returned(r, r.rc)
            ELSE IF r.err # ERR_WOULD_BLOCK THEN Returned(r, 0 - 1)
            ELSE Parked(r, c, channel, "send_queue")

coro_bus_recv_v(chs, cs, c, channel, capacity) ==
    IF NoChannel(chs, channel) THEN Returned(Failed(chs, cs, ERR_NO_CHANNEL), 0 - 1)
    ELSE LET r == try_recv_v(chs, cs, channel, capacity)
         IN IF r.rc > 0 THEN Returned(r, r.rc)
            ELSE IF r.err # ERR_WOULD_BLOCK THEN Returned(r, 0 - 1)
            ELSE Parked(r, c, channel, "recv_queue")

(***************************************************************************)
(* Bookkeeping of what went into and came out of each channel.             *)
(***************************************************************************)
PutOps == {"send", "try_send"}
PutVOps == {"send_v", "try_send_v"}
TakeOps == {"recv", "try_recv"}
TakeVOps == {"recv_v", "try_recv_v"}
BroadcastOps == {"broadcast", "try_broadcast"}
TransferOps == PutOps \cup PutVOps \cup TakeOps \cup TakeVOps \cup BroadcastOps
BlockingOps == {"send", "recv", "broadcast", "send_v", "recv_v"}

\* Did the call hand values over (o is its result).
Accepted(op, o) ==
    /\ ~o.park
    /\ IF op \in PutVOps \cup TakeVOps THEN o.rc > 0 ELSE o.rc = 0

\* fifo after the call: values the caller put are appended, values it took leave.
FifoAfter(op, channel, data, buf, o) ==
    IF ~Accepted(op, o) THEN fifo
    ELSE IF op \in PutOps THEN [fifo EXCEPT ![channel] = Append(@, data)]
    ELSE IF op \in PutVOps THEN [fifo EXCEPT ![channel] = @ \o SubSeq(buf, 1, o.rc)]
    ELSE IF op \in BroadcastOps
         THEN [i \in DOMAIN fifo |->
                 IF i \in DOMAIN channels /\ channels[i].live
                 THEN Append(fifo[i], data) ELSE fifo[i]]
    ELSE [fifo EXCEPT ![channel] = SubSeq(@, Len(o.out) + 1, Len(@))]

\* Were the values the call took exactly the oldest ones, in order.
TookOldest(op, channel, o) ==
    \/ ~Accepted(op, o)
    \/ op \notin TakeOps \cup TakeVOps
    \/ /\ Len(o.out) <= Len(fifo[channel])
       /\ o.out = SubSeq(fifo[channel], 1, Len(o.out))
       /\ (op \in TakeVOps => Len(o.out) = o.rc)

\* Coroutine c took a bus step (call, resume, return) with result o.
Finish(c, op, channel, data, buf, capacity, o) ==
    /\ channels' = o.channels
    /\ coros' = IF c = AnyCoro THEN o.coros
                ELSE [o.coros EXCEPT ![c] =
                        IF o.park
                        THEN [st |-> "parked", op |-> op, channel |-> channel,
                              data |-> data, buf |-> buf, capacity |-> capacity,
                              already_removed |-> FALSE, byclose |-> FALSE]
                        ELSE IdleCoro]
    /\ global_error' = o.err
    /\ fifo' = FifoAfter(op, channel, data, buf, o)
    /\ fifoOK' = (fifoOK /\ TookOldest(op, channel, o))
    /\ UNCHANGED <<channel_count, channel_capacity>>
    /\ UNCHANGED shellVars

Idle(c) == coros[c].st = "idle"
Woken(c, op) == coros[c].st = "woken" /\ coros[c].op = op

\* The channels as the resumed coroutine finds them once suspend_this returned.
Resumed(c) == UnlinkSelf(channels, c, coros[c].already_removed)

\* The next pass of the loop of the call coroutine c is suspended in, taken when
\* c runs again.
Retry(c) ==
    LET k == coros[c]
    IN CASE k.op = "send" -> coro_bus_send(Resumed(c), coros, c, k.channel, k.data)
         [] k.op = "recv" -> coro_bus_recv(Resumed(c), coros, c, k.channel)
         [] k.op = "broadcast" -> coro_bus_broadcast(Resumed(c), coros, c, k.data)
         [] k.op = "send_v" -> coro_bus_send_v(Resumed(c), coros, c, k.channel, k.buf)
         [] k.op = "recv_v" ->
                coro_bus_recv_v(Resumed(c), coros, c, k.channel, k.capacity)

(***************************************************************************)
(* Core A actions.                                                         *)
(***************************************************************************)
TrySend(channel, data) ==
    /\ channel \in ChanIds
    /\ LET r == try_send(channels, coros, channel, data)
       IN Finish(AnyCoro, "try_send", channel, data, <<>>, 0, Returned(r, r.rc))

TryRecv(channel) ==
    /\ channel \in ChanIds
    /\ LET r == try_recv(channels, coros, channel)
       IN Finish(AnyCoro, "try_recv", channel, 0, <<>>, 0, Returned(r, r.rc))

TryBroadcast(data) ==
    /\ data \in Vals
    /\ LET r == try_broadcast(channels, coros, data)
       IN Finish(AnyCoro, "try_broadcast", 0, data, <<>>, 0, Returned(r, r.rc))

TrySendV(channel, buf) ==
    /\ channel \in ChanIds
    /\ LET r == try_send_v(channels, coros, channel, buf)
       IN Finish(AnyCoro, "try_send_v", channel, 0, buf, 0, Returned(r, r.rc))

TryRecvV(channel, capacity) ==
    /\ channel \in ChanIds
    /\ LET r == try_recv_v(channels, coros, channel, capacity)
       IN Finish(AnyCoro, "try_recv_v", channel, 0, <<>>, capacity,
                 Returned(r, r.rc))

Send(c, channel, data) ==
    /\ Idle(c)
    /\ Finish(c, "send", channel, data, <<>>, 0,
              coro_bus_send(channels, coros, c, channel, data))

ResumeSend(c) ==
    /\ Woken(c, "send")
    /\ Finish(c, "send", coros[c].channel, coros[c].data, <<>>, 0, Retry(c))

Recv(c, channel) ==
    /\ Idle(c)
    /\ Finish(c, "recv", channel, 0, <<>>, 0,
              coro_bus_recv(channels, coros, c, channel))

ResumeRecv(c) ==
    /\ Woken(c, "recv")
    /\ Finish(c, "recv", coros[c].channel, 0, <<>>, 0, Retry(c))

Broadcast(c, data) ==
    /\ Idle(c)
    /\ Finish(c, "broadcast", 0, data, <<>>, 0,
              coro_bus_broadcast(channels, coros, c, data))

ResumeBroadcast(c) ==
    /\ Woken(c, "broadcast")
    /\ Finish(c, "broadcast", 0, coros[c].data, <<>>, 0, Retry(c))

SendV(c, channel, buf) ==
    /\ Idle(c)
    /\ Finish(c, "send_v", channel, 0, buf, 0,
              coro_bus_send_v(channels, coros, c, channel, buf))

ResumeSendV(c) ==
    /\ Woken(c, "send_v")
    /\ Finish(c, "send_v", coros[c].channel, 0, coros[c].buf, 0, Retry(c))

RecvV(c, channel, capacity) ==
    /\ Idle(c)
    /\ Finish(c, "recv_v", channel, 0, <<>>, capacity,
              coro_bus_recv_v(channels, coros, c, channel, capacity))

ResumeRecvV(c) ==
    /\ Woken(c, "recv_v")
    /\ Finish(c, "recv_v", coros[c].channel, 0, <<>>, coros[c].capacity, Retry(c))

\* A slot search that takes the highest NULL slot instead of the lowest.
FirstFreeSlot_Highest(chs) ==
    IF \E i \in DOMAIN chs : ~chs[i].live
    THEN CHOOSE i \in DOMAIN chs :
            ~chs[i].live /\ \A j \in DOMAIN chs : j > i => chs[j].live
    ELSE channel_count

\* The for loop of channel_open: the lowest NULL slot, or channel_count if none.
FirstFreeSlot(chs) ==
    IF \E i \in DOMAIN chs : ~chs[i].live
    THEN CHOOSE i \in DOMAIN chs :
            ~chs[i].live /\ \A j \in DOMAIN chs : j < i => chs[j].live
    ELSE channel_count

\* The growth policy of the slot table when channel_count reached it.
InitialTableCapacity == 4
DoublingLimit == 1024
GrownCapacity(cap) ==
    IF cap = 0 THEN InitialTableCapacity
    ELSE IF cap <= DoublingLimit THEN cap * 2
    ELSE cap + cap \div 4

\* size_limit of every live channel, summed.
RECURSIVE RingCells(_, _)
RingCells(chs, i) ==
    IF i >= channel_count THEN 0
    ELSE (IF chs[i].live THEN chs[i].size_limit ELSE 0) + RingCells(chs, i + 1)

ChannelOpen(size_limit) ==
    /\ FirstFreeSlot(channels) < MaxChan
    /\ RingCells(channels, 0) + size_limit <= MaxRing
    /\ LET id == FirstFreeSlot(channels)
       IN /\ channels' = [i \in 0..(IF id = channel_count THEN channel_count
                                    ELSE channel_count - 1) |->
                             IF i = id THEN NewChan(size_limit) ELSE channels[i]]
          /\ channel_count' = IF id = channel_count THEN channel_count + 1
                              ELSE channel_count
          /\ channel_capacity' =
                IF id = channel_count /\ channel_count >= channel_capacity
                THEN GrownCapacity(channel_capacity) ELSE channel_capacity
          /\ fifo' = [fifo EXCEPT ![id] = <<>>]
    /\ global_error' = ERR_NONE
    /\ UNCHANGED <<coros, fifoOK>>
    /\ UNCHANGED shellVars

\* Every coroutine linked into a wait queue of channel object ch.
Waiters(ch) == {ch.send_queue[i] : i \in DOMAIN ch.send_queue}
               \cup {ch.recv_queue[i] : i \in DOMAIN ch.recv_queue}

\* channel_close, called by any running coroutine: nothing to do for a bad id or
\* a NULL slot; else clear the slot and drain both queues.  What follows in the
\* code, coro_yield() and then free(ch->data), free(ch), touches only the channel
\* object, which by then no slot and no queue entry refers to: the caller's
\* return is not a step of its own.
ChannelClose(channel) ==
    /\ IF NoChannel(channels, channel)
       THEN UNCHANGED <<channels, coros, fifo>>
       ELSE LET ch == channels[channel]
                s == DrainQueue(ch, coros, "send_queue")
                r == DrainQueue(s.ch, s.coros, "recv_queue")
            IN /\ channels' = [channels EXCEPT ![channel] = NullChan]
               /\ coros' = [d \in Coros |->
                              IF d \in Waiters(ch)
                              THEN [r.coros[d] EXCEPT !.byclose = TRUE]
                              ELSE r.coros[d]]
               /\ fifo' = [fifo EXCEPT ![channel] = <<>>]
    /\ UNCHANGED <<channel_count, channel_capacity, global_error, fifoOK>>
    /\ UNCHANGED shellVars

\* The state coro_bus_new() leaves, no coroutine inside a call.
InitBus ==
    /\ channels = [i \in {} |-> NullChan]
    /\ channel_count = 0
    /\ channel_capacity = 0
    /\ global_error = ERR_NONE
    /\ coros = [c \in Coros |-> IdleCoro]
    /\ fifo = [i \in 0..(MaxChan - 1) |-> <<>>]
    /\ fifoOK = TRUE

(***************************************************************************)
(* Core B data.  A string the code looks into (the argument of exit) is    *)
(* the sequence of its characters; a command is [exe, args]; an expr is    *)
(* [type, cmd]; a command_line is [exprs, out_type, is_background].        *)
(***************************************************************************)
MaxExprs == 5         \* longest exprs list of a command_line
MaxStatus == 1        \* an external program exits with 0..MaxStatus
MaxBg == 1            \* background children tracked at once

Digits == <<"0", "1", "2", "3", "4", "5", "6", "7", "8", "9">>
IsDigit(ch) == \E d \in DOMAIN Digits : Digits[d] = ch
DigitValue(ch) == (CHOOSE d \in DOMAIN Digits : Digits[d] = ch) - 1
IsSpace(ch) == ch = " "

Command(exe, args) == [exe |-> exe, args |-> args]
NoCommand == Command("", <<>>)

\* Argument lists given to exit: none, 3, 999 and 7x.
ExitArgs == {<<>>, <<<<"3">>>>, <<<<"9", "9", "9">>>>, <<<<"7", "x">>>>}
Commands == {Command("prog", <<>>), Command("cd", <<>>)}
            \cup {Command("exit", a) : a \in ExitArgs}

Exprs == {[type |-> "COMMAND", cmd |-> c] : c \in Commands}
         \cup {[type |-> t, cmd |-> NoCommand] : t \in {"PIPE", "AND", "OR"}}

\* What the parser hands over: the words between two operators make one
\* command, so no two COMMAND exprs are adjacent; operators come in any order.
ExprLists ==
    {e \in UNION {[1..n -> Exprs] : n \in 0..MaxExprs} :
        \A i \in 1..(Len(e) - 1) :
            ~(e[i].type = "COMMAND" /\ e[i + 1].type = "COMMAND")}

OutTypes == {"STDOUT", "FILE_NEW", "FILE_APPEND"}

Lines == [exprs : ExprLists, out_type : OutTypes, is_background : BOOLEAN]

NoLine == [exprs |-> <<>>, out_type |-> "STDOUT", is_background |-> FALSE]
NoPlan == [pipelines |-> <<>>, operators |-> <<>>, hang |-> FALSE]

(***************************************************************************)
(* parse_exit_code / get_exit_code.                                        *)
(***************************************************************************)
INT_MAX == 2147483647

\* std::stoi(arg, &pos): skip white space, take a sign, take the digits.
\* Yields [ok, value, pos]; ok is FALSE where stoi throws.
RECURSIVE SkipSpace(_, _)
SkipSpace(arg, i) ==
    IF i <= Len(arg) /\ IsSpace(arg[i]) THEN SkipSpace(arg, i + 1) ELSE i

RECURSIVE TakeDigits(_, _, _)
TakeDigits(arg, i, acc) ==
    IF i <= Len(arg) /\ IsDigit(arg[i])
    THEN TakeDigits(arg, i + 1, acc * 10 + DigitValue(arg[i]))
    ELSE [value |-> acc, pos |-> i]

stoi(arg) ==
    LET s == SkipSpace(arg, 1)
        signed == s <= Len(arg) /\ arg[s] \in {"+", "-"}
        first == IF signed THEN s + 1 ELSE s
        d == TakeDigits(arg, first, 0)
        value == IF signed /\ arg[s] = "-" THEN 0 - d.value ELSE d.value
    IN IF d.pos = first THEN [ok |-> FALSE, value |-> 0, pos |-> 0]
       ELSE IF value > INT_MAX \/ value < (0 - INT_MAX) - 1
            THEN [ok |-> FALSE, value |-> 0, pos |-> 0]
       ELSE [ok |-> TRUE, value |-> value, pos |-> d.pos - 1]

parse_exit_code(arg) ==
    LET r == stoi(arg)
    IN IF ~r.ok THEN 0 - 1
       ELSE IF r.pos # Len(arg) THEN 0 - 1
       ELSE IF r.value < 0 \/ r.value > 255 THEN 0 - 1
       ELSE r.value

get_exit_code(cmd, status) ==
    IF cmd.args = <<>> THEN status
    ELSE IF parse_exit_code(cmd.args[1]) = 0 - 1 THEN 1
    ELSE parse_exit_code(cmd.args[1])

(***************************************************************************)
(* The plan: parse_pipeline_commands / parse_command_sequence.  `it` is a  *)
(* position 1..Len(exprs), Len(exprs) + 1 standing for end().              *)
(***************************************************************************)
\* The for loop of parse_pipeline_commands, `it` past the first command.
RECURSIVE PipeLoop(_, _, _)
PipeLoop(exprs, it, pipeline) ==
    IF it <= Len(exprs) /\ exprs[it].type = "PIPE"
    THEN IF it + 1 > Len(exprs) \/ exprs[it + 1].type # "COMMAND"
         THEN [pipeline |-> pipeline, it |-> it + 1]
         ELSE PipeLoop(exprs, it + 2, Append(pipeline, exprs[it + 1].cmd))
    ELSE [pipeline |-> pipeline, it |-> it]

parse_pipeline_commands(exprs, it) ==
    IF it > Len(exprs) \/ exprs[it].type # "COMMAND"
    THEN [pipeline |-> <<>>, it |-> it]
    ELSE PipeLoop(exprs, it + 1, <<exprs[it].cmd>>)

\* The for loop of parse_command_sequence.  An iteration that finds no command
\* and no && / || under `it` moves nothing and is repeated for ever: hang.
RECURSIVE SequenceLoop(_, _, _)
SequenceLoop(exprs, it, result) ==
    IF it > Len(exprs) THEN result
    ELSE LET p == parse_pipeline_commands(exprs, it)
             r == IF p.pipeline # <<>>
                  THEN [result EXCEPT !.pipelines = Append(@, p.pipeline)]
                  ELSE result
         IN IF p.it <= Len(exprs) /\ exprs[p.it].type \in {"AND", "OR"}
            THEN SequenceLoop(exprs, p.it + 1,
                              [r EXCEPT !.operators = Append(@, exprs[p.it].type)])
            ELSE IF p.it = it THEN [r EXCEPT !.hang = TRUE]
            ELSE SequenceLoop(exprs, p.it, r)

parse_command_sequence(l) == SequenceLoop(l.exprs, 1, NoPlan)

(***************************************************************************)
(* Running one pipeline.  What the environment decides (chdir, open, pipe, *)
(* fork, the exit status of a program) is a choice: each operator yields   *)
(* the set of exec_result the call can return.                             *)
(***************************************************************************)
ExecResult(code, exits) == [code |-> code, should_exit |-> exits]

\* change_directory: chdir succeeds or not.
change_directory == {0, 1}

\* Is stdout of the last pipeline sent to a file.
Redirected(l, is_last_pipeline) == is_last_pipeline /\ l.out_type # "STDOUT"

\* A builtin check that takes exit as the shell's own whatever stdout is.
handle_single_builtin_AnyOutput(cmd, l, is_last_pipeline, allow_exit, status) ==
    IF cmd.exe = "exit" /\ allow_exit
    THEN {ExecResult(get_exit_code(cmd, status), TRUE)}
    ELSE IF cmd.exe = "cd"
    THEN {ExecResult(c, FALSE) :
            c \in change_directory
                  \cup (IF Redirected(l, is_last_pipeline) THEN {1} ELSE {})}
    ELSE {ExecResult(0, FALSE)}

handle_single_builtin(cmd, l, is_last_pipeline, allow_exit, status) ==
    IF cmd.exe = "exit" /\ allow_exit /\ l.out_type = "STDOUT"
    THEN {ExecResult(get_exit_code(cmd, status), TRUE)}
    ELSE IF cmd.exe = "cd"
    THEN {ExecResult(c, FALSE) :
            c \in change_directory
                  \cup (IF Redirected(l, is_last_pipeline) THEN {1} ELSE {})}
    ELSE {ExecResult(0, FALSE)}

\* What the child running cmd exits with: setup_child_redirection may _exit(1),
\* then execute_child_command.
ChildCodes(cmd, l, is_last_pipeline, status) ==
    (IF Redirected(l, is_last_pipeline) THEN {1} ELSE {})
    \cup (IF cmd.exe = "cd" THEN change_directory
          ELSE IF cmd.exe = "exit" THEN {get_exit_code(cmd, status)}
          ELSE 0..MaxStatus)

\* Descriptors: stdin, "no descriptor", and the two ends of the pipe made in
\* iteration i of the spawn loop.
STDIN_FILENO == 0
NoFd == 0 - 1
ReadEnd(i) == 2 * i + 1
WriteEnd(i) == 2 * i + 2

\* close_pipe_descriptors: what is left of the open set.
close_pipe_descriptors(open, pipefd, current_input) ==
    open \ ({pipefd[1], pipefd[2]} \cup {current_input})

\* wait_for_processes: waitpid on every pid of process_ids; none is left.
wait_for_processes(process_ids) == {}

\* The children of process_ids nobody has waited for.
Unwaited(process_ids) == {process_ids[j] : j \in DOMAIN process_ids}

\* The for loop of execute_pipeline from iteration i (1-based) on, for n commands:
\* every way pipe() and fork() can succeed or fail; the child forked in
\* iteration i has pid i.  Yields [ok, fds, unreaped]: did all the children
\* start, the pipe descriptors the parent holds on return, and the children it
\* forked and did not wait for.
RECURSIVE SpawnLoop(_, _, _, _, _)
SpawnLoop(n, i, current_input, open, process_ids) ==
    IF i > n
    THEN {[ok |-> TRUE, fds |-> open \ {current_input},
           unreaped |-> wait_for_processes(process_ids)]}
    ELSE LET piped == i < n
             pipefd == IF piped THEN <<ReadEnd(i), WriteEnd(i)>> ELSE <<NoFd, NoFd>>
             held == IF piped THEN open \cup {ReadEnd(i), WriteEnd(i)} ELSE open
         IN (IF piped                                                   \* pipe() != 0
             THEN {[ok |-> FALSE, fds |-> open, unreaped |-> Unwaited(process_ids)]}
             ELSE {})
            \cup {[ok |-> FALSE,                                         \* fork() < 0
                   fds |-> close_pipe_descriptors(held, pipefd, current_input),
                   unreaped |-> Unwaited(process_ids)]}
            \cup SpawnLoop(n, i + 1, pipefd[1],
                           held \ {current_input, pipefd[2]},
                           Append(process_ids, i))

\* An exec_result together with the pipe descriptors left open in the parent and
\* the children left unwaited.
Returning(r, fds, left) ==
    [code |-> r.code, should_exit |-> r.should_exit, fds |-> fds,
     unreaped |-> left]

execute_pipeline(commands, l, is_last_pipeline, allow_exit, status) ==
    LET b == handle_single_builtin(commands[1], l, is_last_pipeline, allow_exit,
                                   status)
        spawned == SpawnLoop(Len(commands), 1, STDIN_FILENO, {}, <<>>)
    IN IF Len(commands) = 1
          /\ ((\E r \in b : r.should_exit) \/ commands[1].exe = "cd")
       THEN {Returning(r, {}, {}) : r \in b}
       ELSE {Returning(ExecResult(1, FALSE), s.fds, s.unreaped) :
                s \in {x \in spawned : ~x.ok}}
            \cup {Returning(ExecResult(c, FALSE), s.fds, s.unreaped) :
                    s \in {x \in spawned : x.ok},
                    c \in ChildCodes(commands[Len(commands)], l, is_last_pipeline,
                                     status)}

\* A should_execute that looks at the operator and not at the status.
should_execute_IgnoresStatus(operators, pipeline_index, status) ==
    pipeline_index = 0 \/ operators[pipeline_index] = "AND"

\* The lambda of run_command_sequence; operators[pipeline_index - 1] of the code
\* is operators[pipeline_index] here, sequences being indexed from 1.

should_execute(operators, pipeline_index, status) ==
    \/ pipeline_index = 0
    \/ operators[pipeline_index] = "AND" /\ status = 0
    \/ operators[pipeline_index] = "OR" /\ status # 0

\* cleanup_background: waitpid(pid, WNOHANG) is 0 for a child still running.
cleanup_background(background) == SelectSeq(background, LAMBDA pid : pid \in bg_alive)

\* The pid fork() gives the new background child: one no tracked child has.
FreshPid == CHOOSE pid \in 1..(MaxBg + 1) :
                \A k \in DOMAIN bg_processes : bg_processes[k] # pid

(***************************************************************************)
(* Core B actions.                                                         *)
(***************************************************************************)
\* parser_pop_next hands over a foreground line: process_command_line enters
\* run_command_sequence, which builds the plan (or never comes back from it).
StartLine ==
    /\ shpc = "read"
    /\ \E l \in Lines :
        /\ ~l.is_background
        /\ IF parse_command_sequence(l).hang
           THEN /\ shpc' = "hung"
                /\ UNCHANGED <<line, parsed, current_status>>
           ELSE /\ shpc' = "seq"
                /\ line' = l
                /\ parsed' = parse_command_sequence(l)
                /\ current_status' = last_status
    /\ UNCHANGED <<last_status, bg_processes, bg_alive, seq_i, should_exit, trace,
                   open_fds, unreaped>>
    /\ UNCHANGED busVars

\* One iteration of the loop of run_command_sequence: skip pipeline i, or run it
\* to one of its results res; should_exit leaves the function at once.
StepPipeline ==
    /\ shpc = "seq"
    /\ seq_i < Len(parsed.pipelines)
    /\ IF ~should_execute(parsed.operators, seq_i, current_status)
       THEN /\ trace' = Append(trace, [ran |-> FALSE, before |-> current_status,
                                       after |-> current_status])
            /\ seq_i' = seq_i + 1
            /\ UNCHANGED <<shpc, last_status, current_status, should_exit,
                           open_fds, unreaped>>
       ELSE \E res \in execute_pipeline(parsed.pipelines[seq_i + 1], line,
                                         seq_i + 1 = Len(parsed.pipelines), TRUE,
                                         current_status) :
            /\ trace' = Append(trace, [ran |-> TRUE, before |-> current_status,
                                       after |-> res.code])
            /\ current_status' = res.code
            /\ open_fds' = open_fds \cup res.fds
            /\ unreaped' = unreaped \cup res.unreaped
            /\ IF res.should_exit
               THEN /\ last_status' = res.code
                    /\ should_exit' = TRUE
                    /\ shpc' = "done"
                    /\ UNCHANGED seq_i
               ELSE /\ seq_i' = seq_i + 1
                    /\ UNCHANGED <<shpc, last_status, should_exit>>
    /\ UNCHANGED <<bg_processes, bg_alive, line, parsed>>
    /\ UNCHANGED busVars

\* The loop of run_command_sequence is over: last_status = current_status.
ReturnSequence ==
    /\ shpc = "seq"
    /\ seq_i = Len(parsed.pipelines)
    /\ last_status' = current_status
    /\ shpc' = "done"
    /\ UNCHANGED <<bg_processes, bg_alive, line, parsed, seq_i, current_status,
                   should_exit, trace, open_fds, unreaped>>
    /\ UNCHANGED busVars

\* parser_pop_next hands over a background line: execute_background_command;
\* the child runs the sequence on its own and _exits later.
StartBackground(forked) ==
    /\ shpc = "read"
    /\ \E l \in Lines : l.is_background /\ line' = l
    /\ IF forked
       THEN /\ Len(bg_processes) < MaxBg
            /\ bg_processes' = Append(bg_processes, FreshPid)
            /\ bg_alive' = bg_alive \cup {FreshPid}
            /\ last_status' = 0
       ELSE /\ last_status' = 1
            /\ UNCHANGED <<bg_processes, bg_alive>>
    /\ shpc' = "done"
    /\ UNCHANGED <<parsed, seq_i, current_status, should_exit, trace, open_fds,
                   unreaped>>
    /\ UNCHANGED busVars

\* A background child exits.
BackgroundExits(pid) ==
    /\ pid \in bg_alive
    /\ bg_alive' = bg_alive \ {pid}
    /\ UNCHANGED <<shpc, last_status, bg_processes, line, parsed, seq_i,
                   current_status, should_exit, trace, open_fds, unreaped>>
    /\ UNCHANGED busVars

\* Back in run_shell_loop: delete line, cleanup_background, return if should_exit.
AfterLine ==
    /\ shpc = "done"
    /\ bg_processes' = cleanup_background(bg_processes)
    /\ IF should_exit
       THEN /\ shpc' = "exited"
            /\ UNCHANGED <<line, parsed, seq_i, current_status, trace>>
       ELSE /\ shpc' = "read"
            /\ line' = NoLine
            /\ parsed' = NoPlan
            /\ seq_i' = 0
            /\ current_status' = 0
            /\ trace' = <<>>
    /\ UNCHANGED <<last_status, bg_alive, should_exit, open_fds, unreaped>>
    /\ UNCHANGED busVars

\* read() returns 0: leave the loop, cleanup_background, return last_status.
EndOfInput ==
    /\ shpc = "read"
    /\ shpc' = "eof"
    /\ bg_processes' = cleanup_background(bg_processes)
    /\ UNCHANGED <<last_status, bg_alive, line, parsed, seq_i, current_status,
                   should_exit, trace, open_fds, unreaped>>
    /\ UNCHANGED busVars

InitShell ==
    /\ shpc = "read"
    /\ last_status = 0
    /\ bg_processes = <<>>
    /\ bg_alive = {}
    /\ line = NoLine
    /\ parsed = NoPlan
    /\ seq_i = 0
    /\ current_status = 0
    /\ should_exit = FALSE
    /\ trace = <<>>
    /\ open_fds = {}
    /\ unreaped = {}

Init == InitBus /\ InitShell

NextBus ==
    \/ \E n \in Caps : ChannelOpen(n)
    \/ \E id \in ChanIds : ChannelClose(id)
    \/ \E id \in ChanIds, v \in Vals : TrySend(id, v)
    \/ \E id \in ChanIds : TryRecv(id)
    \/ \E v \in Vals : TryBroadcast(v)
    \/ \E id \in ChanIds, b \in Bufs : TrySendV(id, b)
    \/ \E id \in ChanIds, n \in 0..MaxBatch : TryRecvV(id, n)
    \/ \E c \in Coros, id \in ChanIds, v \in Vals : Send(c, id, v)
    \/ \E c \in Coros : ResumeSend(c)
    \/ \E c \in Coros, id \in ChanIds : Recv(c, id)
    \/ \E c \in Coros : ResumeRecv(c)
    \/ \E c \in BatchCoros, v \in Vals : Broadcast(c, v)
    \/ \E c \in Coros : ResumeBroadcast(c)
    \/ \E c \in BatchCoros, id \in ChanIds, b \in Bufs : SendV(c, id, b)
    \/ \E c \in Coros : ResumeSendV(c)
    \/ \E c \in BatchCoros, id \in ChanIds, n \in 0..MaxBatch : RecvV(c, id, n)
    \/ \E c \in Coros : ResumeRecvV(c)

NextShell ==
    \/ StartLine
    \/ StepPipeline
    \/ ReturnSequence
    \/ \E forked \in BOOLEAN : StartBackground(forked)
    \/ \E pid \in 1..(MaxBg + 1) : BackgroundExits(pid)
    \/ AfterLine
    \/ EndOfInput

SpecBus == Init /\ [][NextBus]_vars
SpecShell == Init /\ [][NextShell]_vars

(***************************************************************************)
(* Core A properties.  The result of a call is what the operator of the    *)
(* call yields on the current state: rc is the value returned, err the     *)
(* last-error the call leaves, channels / coros the bus afterwards.        *)
(***************************************************************************)
Live(i) == i \in DOMAIN channels /\ channels[i].live

\* C1: FIFO.  For every open channel, the values still in it are exactly the
\* values put in and not yet taken out, oldest first, and every receive so far
\* (single or batch, blocking or not) delivered the oldest values in order.
C1_FifoOrder ==
    /\ fifoOK
    /\ \A i \in DOMAIN channels :
          channels[i].live => Contents(channels[i]) = fifo[i]

\* A ring that wrapped: values were taken out, the head moved on, and two
\* different values are waiting in a channel of two cells.
C1_Witness ==
    \E i \in DOMAIN channels :
        /\ channels[i].live
        /\ channels[i].data_head > 0
        /\ Len(fifo[i]) = 2
        /\ fifo[i][1] # fifo[i][2]
        /\ fifoOK

\* C2: every open channel has 0 <= data_count <= size_limit and
\* 0 <= data_head < size_limit.
C2_CountAndHeadInRange ==
    \A i \in DOMAIN channels :
        channels[i].live =>
            /\ 0 <= channels[i].data_count
            /\ channels[i].data_count <= channels[i].size_limit
            /\ 0 <= channels[i].data_head
            /\ channels[i].data_head < channels[i].size_limit

\* A channel of MaxCap cells that is full, its head on the last cell.
C2_Witness ==
    \E i \in DOMAIN channels :
        /\ channels[i].live
        /\ channels[i].size_limit = MaxCap
        /\ channels[i].data_count = MaxCap
        /\ channels[i].data_head = MaxCap - 1

NoSuchChannel(id) == id < 0 \/ id >= channel_count \/ ~channels[id].live

\* The call with result o was refused for want of a channel and changed nothing.
RefusedNoChannel(o) ==
    /\ o.rc = 0 - 1
    /\ o.err = ERR_NO_CHANNEL
    /\ o.channels = channels
    /\ o.coros = coros

\* C4: on an id that is negative, beyond the table, or closed and not reopened,
\* every send, recv, try_send, try_recv, send_v, recv_v, try_send_v and
\* try_recv_v returns -1 with last-error NO_CHANNEL and changes no channel.
C4_NoChannelAfterClose ==
    \A id \in ChanIds :
        NoSuchChannel(id) =>
            /\ \A v \in Vals : RefusedNoChannel(try_send(channels, coros, id, v))
            /\ RefusedNoChannel(try_recv(channels, coros, id))
            /\ \A b \in Bufs : RefusedNoChannel(try_send_v(channels, coros, id, b))
            /\ \A n \in 0..MaxBatch :
                  RefusedNoChannel(try_recv_v(channels, coros, id, n))
            /\ \A c \in Coros :
                  Idle(c) =>
                    /\ \A v \in Vals :
                          /\ ~coro_bus_send(channels, coros, c, id, v).park
                          /\ RefusedNoChannel(coro_bus_send(channels, coros, c, id, v))
                    /\ ~coro_bus_recv(channels, coros, c, id).park
                    /\ RefusedNoChannel(coro_bus_recv(channels, coros, c, id))
                    /\ \A b \in Bufs :
                          /\ ~coro_bus_send_v(channels, coros, c, id, b).park
                          /\ RefusedNoChannel(
                                coro_bus_send_v(channels, coros, c, id, b))
                    /\ \A n \in 0..MaxBatch :
                          /\ ~coro_bus_recv_v(channels, coros, c, id, n).park
                          /\ RefusedNoChannel(
                                coro_bus_recv_v(channels, coros, c, id, n))

\* A call was just refused with NO_CHANNEL while slot 0 is closed inside the
\* table and the channel next to it is open and holds a message.
C4_Witness ==
    /\ channel_count = 2
    /\ ~channels[0].live
    /\ channels[1].live
    /\ channels[1].data_count = 1
    /\ global_error = ERR_NO_CHANNEL

\* C5: try_broadcast is all-or-nothing.  No open channel: NO_CHANNEL.  Some open
\* channel full: WOULD_BLOCK, and no channel and no wait queue changes.
\* Otherwise it succeeds, every open channel gets the value at its tail and its
\* count grows by exactly 1, and closed slots stay as they are.
C5_BroadcastAllOrNothing ==
    \A v \in Vals :
        LET o == try_broadcast(channels, coros, v)
        IN IF \A i \in DOMAIN channels : ~channels[i].live
           THEN /\ o.rc = 0 - 1
                /\ o.err = ERR_NO_CHANNEL
                /\ o.channels = channels
                /\ o.coros = coros
           ELSE IF \E i \in DOMAIN channels :
                      /\ channels[i].live
                      /\ channels[i].data_count = channels[i].size_limit
           THEN /\ o.rc = 0 - 1
                /\ o.err = ERR_WOULD_BLOCK
                /\ o.channels = channels
                /\ o.coros = coros
           ELSE /\ o.rc = 0
                /\ o.err = ERR_NONE
                /\ DOMAIN o.channels = DOMAIN channels
                /\ \A i \in DOMAIN channels :
                      IF channels[i].live
                      THEN /\ o.channels[i].data_count = channels[i].data_count + 1
                           /\ Contents(o.channels[i])
                                = Append(Contents(channels[i]), v)
                      ELSE o.channels[i] = channels[i]

\* A try_broadcast was just refused with WOULD_BLOCK: two channels are open, the
\* first has room, the second is full.
C5_Witness ==
    /\ channel_count = 2
    /\ channels[0].live /\ channels[0].data_count < channels[0].size_limit
    /\ channels[1].live /\ channels[1].data_count = channels[1].size_limit
    /\ global_error = ERR_WOULD_BLOCK

\* C8: on an open channel, try_send fails with -1 / WOULD_BLOCK exactly when the
\* channel is full and try_recv exactly when it is empty, and then the ring, the
\* head, the count and both wait queues stay as they were; otherwise try_send
\* appends the value and try_recv delivers the oldest one, both returning 0.
C8_TryWouldBlock ==
    \A i \in DOMAIN channels :
        channels[i].live =>
            /\ \A v \in Vals :
                  LET o == try_send(channels, coros, i, v)
                  IN IF channels[i].data_count = channels[i].size_limit
                     THEN /\ o.rc = 0 - 1
                          /\ o.err = ERR_WOULD_BLOCK
                          /\ o.channels = channels
                          /\ o.coros = coros
                     ELSE /\ o.rc = 0
                          /\ o.err = ERR_NONE
                          /\ Contents(o.channels[i])
                                = Append(Contents(channels[i]), v)
            /\ LET o == try_recv(channels, coros, i)
               IN IF channels[i].data_count = 0
                  THEN /\ o.rc = 0 - 1
                       /\ o.err = ERR_WOULD_BLOCK
                       /\ o.channels = channels
                       /\ o.coros = coros
                  ELSE /\ o.rc = 0
                       /\ o.err = ERR_NONE
                       /\ o.out = <<Head(Contents(channels[i]))>>
                       /\ Contents(o.channels[i]) = Tail(Contents(channels[i]))

\* The capacity-1 case: the channel holds its one message and the try_send that
\* followed was refused with WOULD_BLOCK.
C8_Witness ==
    /\ channel_count = 1
    /\ channels[0].live
    /\ channels[0].size_limit = 1
    /\ channels[0].data_count = 1
    /\ global_error = ERR_WOULD_BLOCK
    /\ fifo[0] # <<>>

\* A returned call failed exactly when it left a last-error other than NONE.
FailureIffError(o) == (o.rc = 0 - 1) <=> (o.err # ERR_NONE)

\* The same for a blocking call, which moreover never leaves WOULD_BLOCK.
BlockingFailureIffError(o) ==
    ~o.park => (FailureIffError(o) /\ o.err # ERR_WOULD_BLOCK)

\* C9: every transfer call returns the failure value exactly when the last-error
\* it leaves is not NONE; a failure leaves NO_CHANNEL or WOULD_BLOCK, the latter
\* only from try variants; a success leaves NONE.
C9_FailureIffLastError ==
    /\ \A id \in ChanIds :
          /\ \A v \in Vals : FailureIffError(try_send(channels, coros, id, v))
          /\ FailureIffError(try_recv(channels, coros, id))
          /\ \A b \in Bufs : FailureIffError(try_send_v(channels, coros, id, b))
          /\ \A n \in 0..MaxBatch :
                FailureIffError(try_recv_v(channels, coros, id, n))
    /\ \A v \in Vals : FailureIffError(try_broadcast(channels, coros, v))
    /\ \A c \in Coros :
          /\ coros[c].st = "woken" => BlockingFailureIffError(Retry(c))
          /\ Idle(c) =>
               /\ \A v \in Vals :
                     BlockingFailureIffError(
                        coro_bus_broadcast(channels, coros, c, v))
               /\ \A id \in ChanIds :
                     /\ \A v \in Vals :
                           BlockingFailureIffError(
                              coro_bus_send(channels, coros, c, id, v))
                     /\ BlockingFailureIffError(
                           coro_bus_recv(channels, coros, c, id))
                     /\ \A b \in Bufs :
                           BlockingFailureIffError(
                              coro_bus_send_v(channels, coros, c, id, b))
                     /\ \A n \in 0..MaxBatch :
                           BlockingFailureIffError(
                              coro_bus_recv_v(channels, coros, c, id, n))

\* C10: on an open channel with room = size_limit - data_count, try_send_v of n
\* values fails with WOULD_BLOCK only when room = 0 and otherwise appends the
\* first min(n, room) of them in order and returns that number, at least 1;
\* try_recv_v with capacity cap fails with WOULD_BLOCK only when the channel is
\* empty and otherwise takes the min(cap, data_count) oldest values and returns
\* that number, at least 1; send_v and recv_v, when they return, return the
\* same positive counts.
C10_BatchCounts ==
    \A i \in DOMAIN channels :
        channels[i].live =>
            LET count == channels[i].data_count
                room == channels[i].size_limit - count
                held == Contents(channels[i])
            IN /\ \A b \in Bufs :
                    LET o == try_send_v(channels, coros, i, b)
                        sent == Min(Len(b), room)
                    IN /\ (o.rc = 0 - 1) <=> (room = 0)
                       /\ room = 0 => o.err = ERR_WOULD_BLOCK
                       /\ room > 0 =>
                            /\ o.rc = sent
                            /\ o.rc >= 1
                            /\ Contents(o.channels[i]) = held \o SubSeq(b, 1, sent)
                       /\ \A c \in Coros :
                            Idle(c) /\ room > 0 =>
                                /\ ~coro_bus_send_v(channels, coros, c, i, b).park
                                /\ coro_bus_send_v(channels, coros, c, i, b).rc = sent
                                /\ sent >= 1
               /\ \A cap \in 0..MaxBatch :
                    LET o == try_recv_v(channels, coros, i, cap)
                        taken == Min(cap, count)
                    IN /\ (o.rc = 0 - 1) <=> (count = 0)
                       /\ count = 0 => o.err = ERR_WOULD_BLOCK
                       /\ count > 0 =>
                            /\ o.rc = taken
                            /\ o.rc >= 1
                            /\ o.out = SubSeq(held, 1, taken)
                            /\ Contents(o.channels[i])
                                 = SubSeq(held, taken + 1, count)
                       /\ \A c \in Coros :
                            Idle(c) /\ count > 0 =>
                                /\ ~coro_bus_recv_v(channels, coros, c, i, cap).park
                                /\ coro_bus_recv_v(channels, coros, c, i, cap).rc
                                     = taken
                                /\ taken >= 1

\* Coroutine c is inside a blocking call of kind op on the open channel i, parked
\* or woken and not yet run again, and not because the channel was closed.
WaitsIn(c, op, i) ==
    /\ coros[c].st \in {"parked", "woken"}
    /\ coros[c].op = op
    /\ coros[c].channel = i
    /\ ~coros[c].byclose

\* C11: no receiver that arrives later gets an element before a coroutine already
\* waiting in recv on that channel: while one waits, a recv or try_recv made now
\* by another coroutine takes nothing; likewise a later send or try_send takes no
\* slot while a coroutine waits in send on that channel.
C11_NoOvertaking ==
    \A i \in DOMAIN channels :
        channels[i].live =>
            /\ (\E c \in Coros : WaitsIn(c, "recv", i)) =>
                  /\ try_recv(channels, coros, i).rc # 0
                  /\ \A d \in Coros :
                        Idle(d) => coro_bus_recv(channels, coros, d, i).park
            /\ (\E c \in Coros : WaitsIn(c, "send", i)) =>
                  \A v \in Vals :
                      /\ try_send(channels, coros, i, v).rc # 0
                      /\ \A d \in Coros :
                            Idle(d) => coro_bus_send(channels, coros, d, i, v).park

\* The coroutines linked into queue q.
Linked(q) == {q[j] : j \in DOMAIN q}

\* Queue q1 became q2 in this step the FIFO way: some entries left from the front,
\* each of them woken, the others kept their order, and only coroutines that were
\* not in the queue were linked, behind them.
FifoQueueStep(q1, q2) ==
    \E k \in 0..Len(q1) :
        /\ \A j \in 1..k : coros'[q1[j]].st = "woken"
        /\ Len(q2) >= Len(q1) - k
        /\ SubSeq(q2, 1, Len(q1) - k) = SubSeq(q1, k + 1, Len(q1))
        /\ \A j \in (Len(q1) - k + 1)..Len(q2) : q2[j] \notin Linked(q1)

\* C12: wake-ups on one wait queue are FIFO.  In every step, on every queue of
\* every slot, the coroutines that leave the queue are the ones at its front (so
\* one that parked earlier is woken no later than one that parked after it, by a
\* transfer and by the drain of channel_close alike), and a coroutine that parks,
\* for the first time or again, is linked at the tail.
C12_FifoWakeups ==
    [][\A i \in DOMAIN channels :
          /\ FifoQueueStep(channels[i].send_queue, channels'[i].send_queue)
          /\ FifoQueueStep(channels[i].recv_queue, channels'[i].recv_queue)]_vars

\* Coroutine 1 was woken out of a send queue in which coroutine 2 still waits:
\* the channel has room, so 2 was behind 1 when the slot was freed.
C12_Witness ==
    \E i \in DOMAIN channels :
        /\ channels[i].live
        /\ channels[i].data_count < channels[i].size_limit
        /\ channels[i].send_queue = <<2>>
        /\ coros[2].op = "send"
        /\ coros[1].st = "woken" /\ coros[1].op = "send"
        /\ coros[1].channel = i /\ ~coros[1].byclose

\* The coroutines outcome o woke: parked before, woken after.
WokenBy(o) == {c \in Coros : coros[c].st = "parked" /\ o.coros[c].st = "woken"}

\* The first n entries of queue q, or all of them when it is shorter.
FirstOf(q, n) == {q[j] : j \in 1..Min(n, Len(q))}

\* The coroutines at the head of queue q of every live channel.
HeadsOfLive(q) ==
    {channels[j][q][1] : j \in {k \in DOMAIN channels :
                                    channels[k].live /\ channels[k][q] # <<>>}}

\* C13: one event, one wake-up.  A successful single transfer wakes exactly the
\* head of the opposite queue of its channel (nobody when it is empty), a batch
\* transfer of k messages wakes the first k waiters of the opposite queue (all of
\* them when fewer wait), a successful try_broadcast wakes the head receiver of
\* every live channel, and a transfer that fails wakes nobody.
C13_OneEventOneWakeup ==
    /\ \A i \in ChanIds : \A v \in Vals :
          LET o == try_send(channels, coros, i, v)
          IN WokenBy(o) = IF o.rc = 0 THEN FirstOf(channels[i].recv_queue, 1) ELSE {}
    /\ \A i \in ChanIds :
          LET o == try_recv(channels, coros, i)
          IN WokenBy(o) = IF o.rc = 0 THEN FirstOf(channels[i].send_queue, 1) ELSE {}
    /\ \A i \in ChanIds : \A b \in Bufs :
          LET o == try_send_v(channels, coros, i, b)
          IN WokenBy(o) = IF o.rc >= 0 THEN FirstOf(channels[i].recv_queue, o.rc) ELSE {}
    /\ \A i \in ChanIds : \A n \in 0..MaxBatch :
          LET o == try_recv_v(channels, coros, i, n)
          IN WokenBy(o) = IF o.rc >= 0 THEN FirstOf(channels[i].send_queue, o.rc) ELSE {}
    /\ \A v \in Vals :
          LET o == try_broadcast(channels, coros, v)
          IN WokenBy(o) = IF o.rc = 0 THEN HeadsOfLive("recv_queue") ELSE {}

\* Two coroutines wait to receive on one channel and a batch of two messages can
\* be written to it: the two-message event wakes both of them.
C13_Witness ==
    \E i \in DOMAIN channels :
        /\ channels[i].live
        /\ Len(channels[i].recv_queue) = 2
        /\ try_send_v(channels, coros, i, <<1, 2>>).rc = 2
        /\ WokenBy(try_send_v(channels, coros, i, <<1, 2>>)) = Coros

\* Slot i holds no channel: it is NULL or beyond the slots used so far.
EmptySlot(chs, i) == i \notin DOMAIN chs \/ ~chs[i].live

\* This step opened a channel in slot i.
OpenedAt(i) == EmptySlot(channels, i) /\ ~EmptySlot(channels', i)

\* C14: channel_open takes the lowest empty slot and appends only when none is
\* empty.  In every step that opens a channel in slot i, every slot below i holds
\* a channel, a slot beyond the used ones is the next one and is taken only when
\* every used slot holds a channel, the new channel is empty with the requested
\* capacity, and every other slot, with the channels in them, is left as it was.
C14_OpenLowestFreeSlot ==
    [][\A i \in 0..(MaxChan - 1) :
          OpenedAt(i) =>
              /\ \A j \in 0..(i - 1) : ~EmptySlot(channels, j)
              /\ i \notin DOMAIN channels => i = channel_count
              /\ \E size_limit \in Caps : channels'[i] = NewChan(size_limit)
              /\ \A j \in DOMAIN channels : j # i => channels'[j] = channels[j]
              /\ DOMAIN channels' = DOMAIN channels \cup {i}]_vars

\* Two channels were opened, the first was closed while a coroutine waited on it,
\* and the next open took the freed slot 0: the waiter has not run yet, slot 0
\* holds a fresh empty channel and channel 1 is still open under its id.
C14_Witness ==
    /\ channel_count = 2
    /\ channels[0].live /\ channels[0].data_count = 0
    /\ channels[0].send_queue = <<>> /\ channels[0].recv_queue = <<>>
    /\ channels[1].live
    /\ \E c \in Coros : /\ coros[c].st = "woken" /\ coros[c].byclose
                        /\ coros[c].op \in {"send", "recv"}
                        /\ coros[c].channel = 0

\* Coroutine c has been woken out of queue q of channel i and has not run yet.
WokenFrom(c, q, i) ==
    /\ coros[c].st = "woken"
    /\ ~coros[c].byclose
    /\ IF q = "recv_queue" THEN coros[c].op \in {"recv", "recv_v"} /\ coros[c].channel = i
       ELSE \/ coros[c].op \in {"send", "send_v"} /\ coros[c].channel = i
            \/ coros[c].op = "broadcast"

\* A pass of a blocking call that returns does not report WOULD_BLOCK.
BlockingNeverWouldBlock(o) == ~o.park => o.err # ERR_WOULD_BLOCK

\* C18: a coroutine blocked in recv on an open channel resumes once a value is
\* sent that no other receiver takes, and a coroutine blocked in send once a slot
\* is freed: no coroutine stays parked in recv while the channel holds a message,
\* or in send while it has room, unless a coroutine woken from that queue is
\* still to run; and a blocking call never returns WOULD_BLOCK.
C18_BlockedResumes ==
    /\ \A i \in DOMAIN channels : \A c \in Coros :
          (/\ channels[i].live
           /\ coros[c].st = "parked" /\ coros[c].op = "recv" /\ coros[c].channel = i) =>
              \/ channels[i].data_count = 0
              \/ \E d \in Coros : WokenFrom(d, "recv_queue", i)
    /\ \A i \in DOMAIN channels : \A c \in Coros :
          (/\ channels[i].live
           /\ coros[c].st = "parked" /\ coros[c].op = "send" /\ coros[c].channel = i) =>
              \/ IsFull(channels[i])
              \/ \E d \in Coros : WokenFrom(d, "send_queue", i)
    /\ \A c \in Coros :
          /\ Idle(c) =>
                \A i \in ChanIds : \A v \in Vals :
                    /\ BlockingNeverWouldBlock(coro_bus_send(channels, coros, c, i, v))
                    /\ BlockingNeverWouldBlock(coro_bus_recv(channels, coros, c, i))
          /\ coros[c].st = "woken" => BlockingNeverWouldBlock(Retry(c))

\* C19: no lost wake-up on the send side.  If a coroutine is parked in the send
\* queue of an open channel, whether by send, send_v or broadcast, then the
\* channel is full or a coroutine woken from that queue has not run again yet.
C19_NoLostSendWakeup ==
    \A i \in DOMAIN channels :
        (channels[i].live /\ channels[i].send_queue # <<>>) =>
            \/ IsFull(channels[i])
            \/ \E d \in Coros : WokenFrom(d, "send_queue", i)

(***************************************************************************)
(* Core B properties.                                                      *)
(***************************************************************************)
\* Is arg a decimal integer in [0, 255]: digits only, at least one.
IsExitStatus(arg) ==
    /\ arg # <<>>
    /\ \A i \in DOMAIN arg : IsDigit(arg[i])
    /\ TakeDigits(arg, 1, 0).value <= 255

\* Pipeline k of the plan was run and was the exit builtin of the shell itself:
\* a lone exit, stdout not sent to a file.
ExitBuiltinRan(k) ==
    /\ trace[k].ran
    /\ Len(parsed.pipelines[k]) = 1
    /\ parsed.pipelines[k][1].exe = "exit"
    /\ line.out_type = "STDOUT"

\* C6: an exit builtin whose first argument is not a decimal integer in
\* [0, 255] yields status 1 and does not terminate the shell.
C6_InvalidExitKeepsShell ==
    \A k \in DOMAIN trace :
        (/\ ExitBuiltinRan(k)
         /\ parsed.pipelines[k][1].args # <<>>
         /\ ~IsExitStatus(parsed.pipelines[k][1].args[1])) =>
            /\ trace[k].after = 1
            /\ ~should_exit
            /\ shpc # "exited"

\* The last pipeline run among the first k visited (the first is always run).
RECURSIVE LastRun(_)
LastRun(k) == IF k <= 1 \/ trace[k].ran THEN k ELSE LastRun(k - 1)

\* C7: the executor visits the pipelines left to right; pipeline i > 0 is run
\* exactly when operators[i-1] is And and the status is 0, or Or and the status
\* is not 0; a skipped pipeline leaves the status as it was; the status an
\* operator tests is that of the last pipeline run before it; and the status of
\* the line is that of the last pipeline run.
C7_SequenceSemantics ==
    /\ shpc = "seq" => Len(trace) = seq_i
    /\ (shpc = "done" /\ ~should_exit) => Len(trace) = Len(parsed.pipelines)
    /\ \A k \in DOMAIN trace :
          /\ trace[k].ran <=>
                \/ k = 1
                \/ parsed.operators[k - 1] = "AND" /\ trace[k].before = 0
                \/ parsed.operators[k - 1] = "OR" /\ trace[k].before # 0
          /\ ~trace[k].ran => trace[k].after = trace[k].before
          /\ k > 1 => trace[k].before = trace[LastRun(k - 1)].after
    /\ (shpc \in {"done", "exited"} /\ trace # <<>>) =>
          last_status = trace[LastRun(Len(trace))].after

\* false && x || y: the first pipeline fails, the second is skipped, the third
\* is run on the status the first left, and its status is that of the line.
C7_Witness ==
    /\ shpc = "done"
    /\ Len(trace) = 3
    /\ parsed.operators = <<"AND", "OR">>
    /\ trace[1].ran /\ trace[1].after # 0
    /\ ~trace[2].ran
    /\ trace[3].ran /\ trace[3].before = trace[1].after /\ trace[3].after = 0
    /\ last_status = 0


\* Pipeline k of the plan holds an exit command.
HasExit(k) == \E j \in DOMAIN parsed.pipelines[k] : parsed.pipelines[k][j].exe = "exit"

\* C15: the shell terminates because of an exit builtin only when exit is the
\* sole command of its pipeline, the line is a foreground line and stdout is not
\* sent to a file; then that pipeline is the last one visited, the rest of the
\* sequence is not run and the status the shell returns is the exit code.  A
\* pipeline with exit among several commands, or on a line with > / >>, is run
\* without ending the shell, and a background line never ends it.
C15_ExitTerminatesOnlyAsBuiltin ==
    /\ should_exit =>
          /\ trace # <<>>
          /\ ExitBuiltinRan(Len(trace))
          /\ ~line.is_background
          /\ \A k \in 1..(Len(trace) - 1) : ~ExitBuiltinRan(k)
          /\ last_status = get_exit_code(parsed.pipelines[Len(trace)][1],
                                         trace[Len(trace)].before)
    /\ shpc = "exited" => should_exit
    /\ \A k \in DOMAIN trace :
          (/\ trace[k].ran
           /\ HasExit(k)
           /\ (Len(parsed.pipelines[k]) > 1 \/ line.out_type # "STDOUT")) =>
              /\ ~(should_exit /\ k = Len(trace))
              /\ (shpc = "seq" => seq_i >= k)
    /\ (shpc = "done" /\ line.is_background) => ~should_exit /\ trace = <<>>

\* exit 3 && x: the shell has returned 3 after the first of two pipelines.
C15_Witness ==
    /\ shpc = "exited"
    /\ Len(parsed.pipelines) = 2
    /\ Len(trace) = 1
    /\ parsed.pipelines[1][1].args = <<<<"3">>>>
    /\ last_status = 3


\* C16: when the shell returns, by exit or at end of input, it has polled until
\* the background set is empty: no background pid is left in the set.
C16_ReapedAtExit == shpc \in {"exited", "eof"} => bg_processes = <<>>

\* C17: a background line forks once, adds the pid of the child to the background
\* set and always leaves the line status at 0.
C17_BackgroundStatusZero ==
    (shpc = "done" /\ line.is_background) =>
        /\ last_status = 0
        /\ bg_processes # <<>>


\* C20: whenever execute_pipeline has returned, on success or after pipe() or
\* fork() failed, the shell holds no pipe descriptor that it created.
C20_NoPipeDescriptorLeft == open_fds = {}


\* C21: for every non-empty expression list the plan has one operator fewer
\* than pipelines, operators[i-1] being the one written between pipeline i-1 and
\* pipeline i, so every operator the executor reads exists.
C21_OneOperatorFewer ==
    (shpc \in {"seq", "done", "exited"} /\ line.exprs # <<>> /\ ~line.is_background) =>
        /\ Len(parsed.operators) = Len(parsed.pipelines) - 1
        /\ \A k \in DOMAIN trace : k > 1 => (k - 1) \in DOMAIN parsed.operators

\* C22: parse_command_sequence terminates on every finite expression list,
\* malformed ones included: the shell is never stuck inside it.
C22_ParseTerminates == shpc # "hung"


\* C23: every child execute_pipeline forked has been waited for when it returns,
\* also after pipe() or fork() failed with children already spawned: the shell
\* never has a foreground child that is neither reaped nor tracked.
C23_ForegroundChildrenReaped == unreaped = {}

====
